---- MODULE Spec2Model ----
(***************************************************************************)
(* Model of the Pulumi stack backend-migration scripts of super-utils.     *)
(*                                                                         *)
(* Three scripts implement migrateStack:                                   *)
(*   "plain"   src/pulumi-migrate/pulumi-migrate.ts, lines 1-633           *)
(*             (Pulumi Cloud -> S3, plain logger)                          *)
(*   "spinner" src/unnamed/part_000, lines 1265-2968                       *)
(*             (Pulumi Cloud -> S3, spinner logger)                        *)
(*   "s3cloud" src/unnamed/part_000, lines 1-1263                          *)
(*             (S3 -> Pulumi Cloud, spinner logger)                        *)
(*                                                                         *)
(* One run of one script is a behaviour: pc is the position inside         *)
(* migrateStack, every step function is one action, every external         *)
(* command (aws / pulumi child process) succeeds or fails                  *)
(* nondeterministically and is appended to cmds.                           *)
(*                                                                         *)
(* Texts are sequences of tokens.  A stack id "acme/dev" is                *)
(* <<"acme", "/", "dev">>; a preview output is the token sequence of its   *)
(* lines joined by "\n".                                                   *)
(*                                                                         *)
(* Spec is a migration run.  SpecVerifier applies verifyMigration to every *)
(* preview result; SpecCommand follows executeCommand from Deno.run to its *)
(* return, one child process at a time.                                    *)
(*                                                                         *)
(* Functions of the repository that are not a step of a migration run have *)
(* a specification each: SpecUrl (the S3 backend URL built and parsed),    *)
(* SpecRegion (the region a script works in), SpecEnvFile                  *)
(* (aws-param-store-env), SpecEks (update-eks-cidrs) and SpecPolicy        *)
(* (checkAndFixS3Permissions).                                             *)
(***************************************************************************)
EXTENDS Integers, Sequences, FiniteSets, TLC

VARIABLES
    variant,    \* which script runs
    args,       \* parsed command line (constant during the run)
    pc,         \* position in migrateStack
    cmds,       \* external commands invoked so far, in order
    session,    \* backend the Pulumi CLI is logged into
    tempDir,    \* the temporary export directory on disk
    cleanups,   \* number of cleanUpTempFiles() calls that ran
    exitCode,   \* -1 while running, else the process exit code
    res,        \* results of the steps taken so far
    vSuccess,   \* verifier input: did the preview exit with status 0
    vOutput,    \* verifier input: captured output of the preview
    vVerdict,   \* verifier result: "none", "clean" or "changes"
    exec,       \* executeCommand: the caller's commands, the child processes
                \* in flight, the last child's outcome and the value returned
    url,        \* S3 backend URL: its parts, the URL built, the parts parsed
    reg,        \* region resolution: flag, environment, prompt, region used
    envFile,    \* aws-param-store-env: the .env file, the loop, the parameters
    eks,        \* update-eks-cidrs: existing and requested CIDRs, the update
    policy      \* checkAndFixS3Permissions: the bucket policy before and after

vars == <<variant, args, pc, cmds, session, tempDir, cleanups, exitCode, res,
          vSuccess, vOutput, vVerdict, exec, url, reg, envFile, eks, policy>>

runVars == <<variant, args, pc, cmds, session, tempDir, cleanups, exitCode, res>>

verifierVars == <<vSuccess, vOutput, vVerdict>>

commandVars == <<exec>>

toolVars == <<url, reg, envFile, eks, policy>>

Variants == {"plain", "spinner", "s3cloud"}

----------------------------------------------------------------------------
(* Texts as token sequences *)

\* JavaScript's undefined, as the value of a destructured array hole
Undefined == <<"<undefined>">>

\* JavaScript truthiness of a string-or-undefined value
Truthy(s) == s # <<>> /\ s # Undefined

\* index of the first "/" of s at or after position i, 0 when there is none
RECURSIVE FirstSlash(_, _)
FirstSlash(s, i) ==
    IF i > Len(s) THEN 0
    ELSE IF s[i] = "/" THEN i
    ELSE FirstSlash(s, i + 1)

\* String.prototype.split('/'): the pieces between the slashes
RECURSIVE Split(_)
Split(s) ==
    LET k == FirstSlash(s, 1) IN
    IF k = 0 THEN <<s>>
    ELSE <<SubSeq(s, 1, k - 1)>> \o Split(SubSeq(s, k + 1, Len(s)))

\* const [a, b] = s.split('/'): element i of the destructured array
Piece(s, i) == IF i <= Len(Split(s)) THEN Split(s)[i] ELSE Undefined

\* String.prototype.includes('/')
IncludesSlash(s) == FirstSlash(s, 1) # 0

\* needle occurs in hay as a contiguous run of tokens (String.prototype.includes)
Includes(hay, needle) ==
    \E i \in 1..(Len(hay) - Len(needle) + 1) :
        SubSeq(hay, i, i + Len(needle) - 1) = needle

----------------------------------------------------------------------------
(* The verifier: classification of the output of `pulumi preview --diff` *)

Whitespace == {" ", "\n"}

Digits == {"0", "1"}

\* the lines a preview output is made of, as token sequences
PlusCreate1 == <<"+", " ", "1", " ", "to create">>

PlusCreate0 == <<"+", " ", "0", " ", "to create">>

TildeUpdate1 == <<"~", " ", "1", " ", "to update">>

MinusDelete1 == <<"-", " ", "1", " ", "to delete">>

ZeroToCreate == <<"0", " ", "resources", " ", "to create">>

ZeroToUpdate == <<"0", " ", "resources", " ", "to update">>

ZeroToDelete == <<"0", " ", "resources", " ", "to delete">>

TenToCreate == <<"1", "0", " ", "resources", " ", "to create">>

NoChanges == <<"no changes">>

Unchanged == <<"1", " ", "unchanged">>

LineKinds == {PlusCreate1, PlusCreate0, TildeUpdate1, MinusDelete1, ZeroToCreate,
              ZeroToUpdate, ZeroToDelete, TenToCreate, NoChanges, Unchanged}

\* largest number of lines of a preview output
MaxLines == 3

Outputs == UNION {[1..n -> LineKinds] : n \in 0..MaxLines}

\* the text of an output: its lines joined by "\n"
RECURSIVE Text(_)
Text(lines) ==
    IF lines = <<>> THEN <<>>
    ELSE IF Len(lines) = 1 THEN lines[1]
    ELSE lines[1] \o <<"\n">> \o Text(Tail(lines))

\* every token of s at positions a..b is in set S, and there is at least one
Run(s, a, b, S) == a <= b /\ \A k \in a..b : s[k] \in S

\* output.match(/<sign>\s+\d+\s+<phrase>/)
MatchCount(text, sign, phrase) ==
    \E i \in 1..Len(text) :
        /\ text[i] = sign
        /\ \E a \in (i + 1)..Len(text) :
           \E b \in (a + 1)..Len(text) :
           \E c \in (b + 1)..(Len(text) - 1) :
               /\ Run(text, i + 1, a, Whitespace)
               /\ Run(text, a + 1, b, Digits)
               /\ Run(text, b + 1, c, Whitespace)
               /\ text[c + 1] = phrase

\* hasChanges of the spinner scripts
hasChanges(text) ==
    \/ Includes(text, <<"+", " ">>) /\ MatchCount(text, "+", "to create")
    \/ Includes(text, <<"~", " ">>) /\ MatchCount(text, "~", "to update")
    \/ Includes(text, <<"-", " ">>) /\ MatchCount(text, "-", "to delete")

\* noChanges of the plain script
noChanges(text) ==
    \/ Includes(text, NoChanges)
    \/ /\ Includes(text, ZeroToCreate)
       /\ Includes(text, ZeroToUpdate)
       /\ Includes(text, ZeroToDelete)

\* verifyMigration without the exit status of the preview
verifyMigrationIgnoringExit(v, success, text) ==
    IF v = "plain" THEN noChanges(text) ELSE ~hasChanges(text)

\* verifyMigration: TRUE when the migration is verified (no changes)
verifyMigration(v, success, text) ==
    IF v = "plain"
    THEN ~(~success \/ ~noChanges(text))
    ELSE ~(~success \/ hasChanges(text))

Verdict(ok) == IF ok THEN "clean" ELSE "changes"

\* the (exit status, verdict) pairs verifyMigration can produce in script v
VerifyOutcomes(v) ==
    {<<ok, verifyMigration(v, ok, Text(o))>> : ok \in BOOLEAN, o \in Outputs}

VerifyOutcomesPlain == VerifyOutcomes("plain")

VerifyOutcomesSpinner == VerifyOutcomes("spinner")

VerifyOutcomesS3Cloud == VerifyOutcomes("s3cloud")

----------------------------------------------------------------------------
(* Inputs of a run *)

StackIds == {<<>>, <<"dev">>, <<"acme", "/", "dev">>}

\* --region; "eu-west-3" is the default of the Cloud-to-S3 scripts
Regions == {"us-east-1", "eu-west-3"}

\* --kms-alias (its default) and the id of a key `aws kms create-key` makes
DefaultKmsAlias == <<"alias/", "pulumi-secrets">>

NewKeyId == <<"1234abcd">>

\* --secrets-provider and whether --passphrase is given
SecretsInputs == {<<"awskms", FALSE>>, <<"passphrase", TRUE>>,
                  <<"passphrase", FALSE>>, <<"default", FALSE>>}

\* what the user types at a prompt; "null" is end of input
Responses == {"null", "", "y", "Y", "yes", "n"}

ToLowerCase(r) == IF r = "Y" THEN "y" ELSE r

\* a run without the bucket's companions: no --dynamodb-table (and
\* --create-dynamodb at its default false), no KMS key (--secrets-provider
\* default, --create-kms at its default true), the default region
NoCompanions(a) ==
    /\ a.region = "eu-west-3" /\ ~a.lockTable /\ ~a.createDynamodb
    /\ a.secretsProvider = "default" /\ a.createKms

\* a run that stops after the import: --skip-verify, no --delete-source
StopsAfterImport(a) ==
    /\ a.skipVerify /\ ~a.deleteSource /\ ~a.yes /\ a.interactive

\* the command lines of the runs: every combination of the migration flags
\* without companions, every combination of the region, lock table and
\* secrets flags with a run that stops after the import, and --help with the
\* other flags as in both
Enumerated(a) ==
    IF a.help THEN NoCompanions(a) /\ StopsAfterImport(a)
    ELSE NoCompanions(a) \/ StopsAfterImport(a)

\* the flags a script does not define keep the value the code reads for them
ArgsOf(v) ==
    {a \in [stack : StackIds, bucket : BOOLEAN, createBucket : BOOLEAN,
            skipVerify : BOOLEAN, deleteSource : BOOLEAN, yes : BOOLEAN,
            interactive : BOOLEAN, secretsProvider : {"awskms", "passphrase", "default"},
            passphrase : BOOLEAN, organization : {<<>>, <<"corp">>},
            help : BOOLEAN, region : Regions, lockTable : BOOLEAN,
            createDynamodb : BOOLEAN, createKms : BOOLEAN] :
        /\ <<a.secretsProvider, a.passphrase>> \in SecretsInputs
        /\ Enumerated(a)
        /\ a.createDynamodb => a.lockTable
        /\ v = "plain" => /\ ~a.yes /\ a.interactive
                          /\ a.secretsProvider = "default" /\ ~a.passphrase
                          /\ a.createKms
        /\ v = "s3cloud" => /\ a.createBucket
                            /\ a.secretsProvider = "default"
                            /\ a.region = "eu-west-3" /\ ~a.lockTable
                            /\ ~a.createDynamodb /\ a.createKms
        /\ v # "s3cloud" => a.organization = <<>>}

NoResults ==
    [bucket |-> "none", export |-> "none", login |-> "none", create |-> "none",
     import |-> "none", preview |-> "none", verify |-> "none", answer |-> "none",
     typed |-> "none", delete |-> "none", rmSession |-> "none", reported |-> FALSE,
     lock |-> "none", kms |-> "none", kmsAlias |-> DefaultKmsAlias,
     kmsRet |-> <<>>]

VerifierIdle == vSuccess = FALSE /\ vOutput = <<>> /\ vVerdict = "none"

\* no child process has been spawned
NoProcess == [spawned |-> FALSE, code |-> "none", stdout |-> <<>>, stderr |-> <<>>,
              io |-> "none"]

\* executeCommand has not returned yet
NoReturn == [success |-> FALSE, output |-> <<>>, thrown |-> FALSE, returned |-> FALSE]

CommandIdle ==
    exec = [queue |-> <<>>, at |-> "caller", inFlight |-> 0, proc |-> NoProcess,
            ret |-> NoReturn]

\* a function that is not being exercised
Idle == [phase |-> "idle"]

ToolsIdle == url = Idle /\ reg = Idle /\ envFile = Idle /\ eks = Idle /\ policy = Idle

Init ==
    /\ variant \in Variants
    /\ args \in ArgsOf(variant)
    /\ pc = "checkArgs"
    /\ cmds = <<>>
    /\ session \in (IF variant = "s3cloud" THEN {"loggedout", "target"} ELSE {"source"})
    /\ tempDir = "absent"
    /\ cleanups = 0
    /\ exitCode = -1
    /\ res = NoResults
    /\ VerifierIdle
    /\ CommandIdle
    /\ ToolsIdle

----------------------------------------------------------------------------
(* Building blocks *)

\* the arguments of a command the steps differ in: LocationConstraint of
\* create-bucket, dynamodb_table of the login URL, the secrets provider
NoOpts == [location |-> "none", table |-> "none", secrets |-> <<>>]

\* one invocation of executeCommand: the command, its principal argument (a
\* stack id, a backend), the value of --organization, and whether it exited 0
Cmd(name, arg, org, ok) ==
    [name |-> name, arg |-> arg, org |-> org, ok |-> ok, opts |-> NoOpts]

\* the same command with some of its optional arguments given
WithOpts(cmd, opts) == [cmd EXCEPT !.opts = opts]

Run0(name, ok) == Cmd(name, <<>>, <<>>, ok)

Goto(p) == pc' = p /\ exitCode' = exitCode

\* Deno.exit(code)
Exit(code) == pc' = "exited" /\ exitCode' = code

\* the Pulumi CLI's session after `pulumi logout`
AfterLogout(s, ok) == IF ok THEN "loggedout" ELSE s

\* the Pulumi CLI's session after `pulumi login <backend>`
AfterLogin(s, backend, ok) == IF ok THEN backend ELSE s

\* `pulumi login <backend>` issued without the logout before it
loginOnly(backend, lo, li) ==
    <<Cmd("pulumi login", <<backend>>, <<>>, li)>>

\* `pulumi logout` (result unused), then `pulumi login <backend>`
logoutThenLogin(backend, lo, li) ==
    <<Run0("pulumi logout", lo), Cmd("pulumi login", <<backend>>, <<>>, li)>>

\* Logger.confirm(question, defaultYes)
LoggerConfirm(a, response, defaultYes) ==
    IF a.yes THEN TRUE
    ELSE IF ~a.interactive THEN defaultYes
    ELSE IF response \in {"null", ""} THEN defaultYes
    ELSE ToLowerCase(response) \in {"y", "yes"}

\* the plain script's prompt: (prompt("") || "n").toLowerCase() === "y"
PlainConfirm(response) ==
    LET r == IF response \in {"null", ""} THEN "n" ELSE response
    IN  ToLowerCase(r) = "y"

\* the answer to a yes/no question in script v
Confirm(v, a, response) ==
    IF v = "plain" THEN PlainConfirm(response) ELSE LoggerConfirm(a, response, FALSE)

\* whether the question is put to the user at all
Prompted(v, a) == v = "plain" \/ (~a.yes /\ a.interactive)

\* cleanUpTempFiles(): remove the temporary directory, errors swallowed
CleanUpTempFiles == tempDir' = "absent" /\ cleanups' = cleanups + 1

----------------------------------------------------------------------------
(* Stack names *)

\* the name the Cloud-to-S3 scripts give the stack in the S3 backend:
\* const [orgName, stackName] = stack.split('/')
orgName(stack) == Piece(stack, 1)

stackName(stack) == Piece(stack, 2)

\* stackName || stack
StackNameOrStack(stack) == IF Truthy(stackName(stack)) THEN stackName(stack) ELSE stack

\* the S3-to-Cloud script: targetOrg ? `${targetOrg}/${stackName}` : stackName
targetStack(stack, organization) ==
    LET orgFromStack == IF IncludesSlash(stack) THEN Split(stack)[1] ELSE <<>>
        name == IF IncludesSlash(stack) THEN Split(stack)[2] ELSE stack
        targetOrg == IF Truthy(organization) THEN organization ELSE orgFromStack
    IN  IF Truthy(targetOrg) THEN targetOrg \o <<"/">> \o name ELSE name

----------------------------------------------------------------------------
(* Steps of migrateStack *)

\* !args.stack || !args.bucket (!args.backend in the S3-to-Cloud script)
MissingArgument(a) == a.stack = <<>> \/ ~a.bucket

\* the argument check letting a run without --stack or --bucket go on
CheckArgsUnchecked ==
    /\ pc = "checkArgs"
    /\ IF args.help THEN Exit(0) ELSE Goto("checkPulumi")
    /\ UNCHANGED <<verifierVars, commandVars, toolVars>>
    /\ UNCHANGED <<variant, args, cmds, session, tempDir, cleanups, res>>

\* the argument check at the top of each script: help is shown and the process
\* exits, with code 0 when --help was given
CheckArgs ==
    /\ pc = "checkArgs"
    /\ IF args.help \/ MissingArgument(args)
       THEN IF args.help THEN Exit(0) ELSE Exit(1)
       ELSE Goto("checkPulumi")
    /\ UNCHANGED <<verifierVars, commandVars, toolVars>>
    /\ UNCHANGED <<variant, args, cmds, session, tempDir, cleanups, res>>

CheckPulumiInstalled ==
    /\ pc = "checkPulumi"
    /\ \E ok \in BOOLEAN :
        /\ cmds' = Append(cmds, Run0("pulumi version", ok))
        /\ IF ok THEN Goto("checkAws") ELSE Exit(1)
    /\ UNCHANGED <<verifierVars, commandVars, toolVars>>
    /\ UNCHANGED <<variant, args, session, tempDir, cleanups, res>>

AfterChecks == IF variant = "s3cloud" THEN "loginSource" ELSE "bucket"

CheckAwsConfiguration ==
    /\ pc = "checkAws"
    /\ \E ok \in BOOLEAN, response \in Responses :
        /\ cmds' = Append(cmds, Run0("aws sts get-caller-identity", ok))
        /\ IF ok \/ variant = "plain" \/ LoggerConfirm(args, response, FALSE)
           THEN Goto(AfterChecks)
           ELSE Exit(1)
    /\ UNCHANGED <<verifierVars, commandVars, toolVars>>
    /\ UNCHANGED <<variant, args, session, tempDir, cleanups, res>>

\* the commands createS3Bucket runs after a successful create-bucket
PostCreation(v) ==
    IF v = "plain"
    THEN {<<Run0("aws s3api put-bucket-versioning", a),
            Run0("aws s3api put-bucket-encryption", b),
            Run0("aws s3api put-bucket-lifecycle-configuration", c)>> :
              a \in BOOLEAN, b \in BOOLEAN, c \in BOOLEAN}
    ELSE {<<Run0("aws s3api put-bucket-versioning", FALSE)>>,
          <<Run0("aws s3api put-bucket-versioning", TRUE),
            Run0("aws s3api put-bucket-encryption", FALSE)>>}
         \cup
         {<<Run0("aws s3api put-bucket-versioning", TRUE),
            Run0("aws s3api put-bucket-encryption", TRUE),
            Run0("aws s3api put-bucket-lifecycle-configuration", c)>> : c \in BOOLEAN}

\* createBucketCmd with the LocationConstraint pushed for every region
createBucketCmdAlways(region, ok) ==
    WithOpts(Run0("aws s3api create-bucket", ok), [NoOpts EXCEPT !.location = region])

\* createBucketCmd: --create-bucket-configuration LocationConstraint=<region>
\* is pushed when the region is not us-east-1
createBucketCmd(region, ok) ==
    WithOpts(Run0("aws s3api create-bucket", ok),
             [NoOpts EXCEPT !.location = IF region # "us-east-1" THEN region
                                         ELSE "none"])

\* createS3Bucket: the commands it runs and the value it returns
createS3Bucket(v, region) ==
    {[cmds |-> <<createBucketCmd(region, FALSE)>>, ok |-> FALSE]}
    \cup
    {[cmds |-> <<createBucketCmd(region, TRUE)>> \o post, ok |-> TRUE] :
        post \in PostCreation(v)}

\* what follows the bucket: the optional lock table
AfterBucket == "lockTable"

\* migrateStack, bucket part, with the bucket creation failure not checked
ProvisionBucketUnchecked ==
    /\ pc = "bucket"
    /\ \E found \in BOOLEAN :
        LET head == Run0("aws s3api head-bucket", found) IN
        IF found
        THEN /\ cmds' = Append(cmds, head)
             /\ res' = [res EXCEPT !.bucket = "found"]
             /\ Goto(AfterBucket)
        ELSE \E run \in createS3Bucket(variant, args.region) :
                /\ cmds' = Append(cmds, head) \o run.cmds
                /\ res' = [res EXCEPT !.bucket = IF run.ok THEN "created" ELSE "missing"]
                /\ Goto(AfterBucket)
    /\ UNCHANGED <<verifierVars, commandVars, toolVars>>
    /\ UNCHANGED <<variant, args, session, tempDir, cleanups>>

\* migrateStack: checkS3BucketExists, then createS3Bucket or exit
ProvisionBucket ==
    /\ pc = "bucket"
    /\ \E found \in BOOLEAN :
        LET head == Run0("aws s3api head-bucket", found) IN
        IF found
        THEN /\ cmds' = Append(cmds, head)
             /\ res' = [res EXCEPT !.bucket = "found"]
             /\ Goto(AfterBucket)
        ELSE IF args.createBucket
        THEN \E run \in createS3Bucket(variant, args.region) :
                /\ cmds' = Append(cmds, head) \o run.cmds
                /\ res' = [res EXCEPT !.bucket = IF run.ok THEN "created" ELSE "missing"]
                /\ IF run.ok THEN Goto(AfterBucket) ELSE Exit(1)
        ELSE /\ cmds' = Append(cmds, head)
             /\ res' = [res EXCEPT !.bucket = "missing"]
             /\ Exit(1)
    /\ UNCHANGED <<verifierVars, commandVars, toolVars>>
    /\ UNCHANGED <<variant, args, session, tempDir, cleanups>>

\* createDynamoDBTable: create-table, then point-in-time recovery (best effort)
createDynamoDBTable ==
    {[cmds |-> <<Run0("aws dynamodb create-table", FALSE)>>, ok |-> FALSE]}
    \cup
    {[cmds |-> <<Run0("aws dynamodb create-table", TRUE),
                 Run0("aws dynamodb update-continuous-backups", b)>>, ok |-> TRUE] :
        b \in BOOLEAN}

AfterLockTable == IF variant = "spinner" THEN "kms" ELSE "export"

\* migrateStack: checkDynamoDBTableExists, then createDynamoDBTable or a
\* warning; no outcome ends the run
ProvisionLockTable ==
    /\ pc = "lockTable"
    /\ IF ~args.lockTable
       THEN UNCHANGED <<cmds, res>>
       ELSE \E exists \in BOOLEAN :
            LET describe == Run0("aws dynamodb describe-table", exists) IN
            IF exists
            THEN /\ cmds' = Append(cmds, describe)
                 /\ res' = [res EXCEPT !.lock = "found"]
            ELSE IF args.createDynamodb
            THEN \E run \in createDynamoDBTable :
                    /\ cmds' = Append(cmds, describe) \o run.cmds
                    /\ res' = [res EXCEPT !.lock = IF run.ok THEN "created"
                                                   ELSE "missing"]
            ELSE /\ cmds' = Append(cmds, describe)
                 /\ res' = [res EXCEPT !.lock = "missing"]
    /\ Goto(AfterLockTable)
    /\ UNCHANGED <<verifierVars, commandVars, toolVars>>
    /\ UNCHANGED <<variant, args, session, tempDir, cleanups>>

\* JavaScript's null, as the value createKmsKeyAndAlias returns on failure
Null == <<"<null>">>

\* alias.startsWith("alias/") ? alias : `alias/${alias}`
KmsKeyId(alias) == IF alias # <<>> /\ alias[1] = "alias/" THEN alias
                   ELSE <<"alias/">> \o alias

\* `awskms://${kmsKeyId}?region=${region}`
SecretsProviderUrl(alias, region) ==
    <<"awskms://">> \o KmsKeyId(alias) \o <<"?region=", region>>

\* createKmsKeyAndAlias giving up when the alias cannot be created
createKmsKeyAndAliasOrNothing(alias) ==
    {[cmds |-> <<Run0("aws kms create-key", FALSE)>>, ret |-> Null],
     [cmds |-> <<Run0("aws kms create-key", TRUE)>>, ret |-> Null],
     [cmds |-> <<Run0("aws kms create-key", TRUE),
                 Run0("aws kms create-alias", FALSE)>>, ret |-> Null],
     [cmds |-> <<Run0("aws kms create-key", TRUE),
                 Run0("aws kms create-alias", TRUE)>>, ret |-> alias]}

\* createKmsKeyAndAlias: null when create-key fails or its output cannot be
\* parsed, the key id when only the alias fails, else the alias
createKmsKeyAndAlias(alias) ==
    {[cmds |-> <<Run0("aws kms create-key", FALSE)>>, ret |-> Null],
     [cmds |-> <<Run0("aws kms create-key", TRUE)>>, ret |-> Null],
     [cmds |-> <<Run0("aws kms create-key", TRUE),
                 Run0("aws kms create-alias", FALSE)>>, ret |-> NewKeyId],
     [cmds |-> <<Run0("aws kms create-key", TRUE),
                 Run0("aws kms create-alias", TRUE)>>, ret |-> alias]}

\* migrateStack (spinner script): checkKmsAliasExists, then
\* createKmsKeyAndAlias or a warning; no outcome ends the run and
\* secretsProvider keeps its value
ProvisionKms ==
    /\ pc = "kms"
    /\ IF args.secretsProvider # "awskms"
       THEN UNCHANGED <<cmds, res>>
       ELSE \E exists \in BOOLEAN :
            LET aliasName == KmsKeyId(DefaultKmsAlias)
                describe == Run0("aws kms describe-key", exists)
            IN
            IF exists
            THEN /\ cmds' = Append(cmds, describe)
                 /\ res' = [res EXCEPT !.kms = "found"]
            ELSE IF args.createKms
            THEN \E run \in createKmsKeyAndAlias(aliasName) :
                    /\ cmds' = Append(cmds, describe) \o run.cmds
                    /\ res' = IF run.ret = Null
                              THEN [res EXCEPT !.kms = "missing",
                                               !.kmsRet = run.ret]
                              ELSE [res EXCEPT !.kms = "created",
                                               !.kmsAlias = run.ret,
                                               !.kmsRet = run.ret]
            ELSE /\ cmds' = Append(cmds, describe)
                 /\ res' = [res EXCEPT !.kms = "missing"]
    /\ Goto("changeSecretSource")
    /\ UNCHANGED <<verifierVars, commandVars, toolVars>>
    /\ UNCHANGED <<variant, args, session, tempDir, cleanups>>

\* changeSecretProvider on the source stack (spinner script); result unused
ChangeSecretProvider ==
    /\ pc = "changeSecretSource"
    /\ IF args.secretsProvider = "passphrase" /\ ~args.passphrase
       THEN cmds' = cmds
       ELSE \E ok \in BOOLEAN :
               cmds' = Append(cmds,
                   WithOpts(Cmd("pulumi stack change-secrets-provider",
                                args.stack, <<>>, ok),
                            [NoOpts EXCEPT !.secrets =
                                IF args.secretsProvider = "awskms"
                                THEN SecretsProviderUrl(res.kmsAlias, args.region)
                                ELSE <<args.secretsProvider>>]))
    /\ Goto("export")
    /\ UNCHANGED <<verifierVars, commandVars, toolVars>>
    /\ UNCHANGED <<variant, args, session, tempDir, cleanups, res>>

\* loginToS3Backend(backend) of the S3-to-Cloud script: login to the source
LoginToSource ==
    /\ pc = "loginSource"
    /\ \E lo \in BOOLEAN, li \in BOOLEAN :
        /\ cmds' = cmds \o logoutThenLogin("source", lo, li)
        /\ session' = AfterLogin(AfterLogout(session, lo), "source", li)
        /\ IF li THEN Goto("export") ELSE Exit(1)
    /\ UNCHANGED <<verifierVars, commandVars, toolVars>>
    /\ UNCHANGED <<variant, args, tempDir, cleanups, res>>

\* exportStackState: ensureDir(tempDir), then `pulumi stack export`
ExportStackState ==
    /\ pc = "export"
    /\ \E ok \in BOOLEAN :
        /\ cmds' = Append(cmds, Cmd("pulumi stack export", args.stack, <<>>, ok))
        /\ tempDir' = IF ok THEN "state" ELSE "empty"
        /\ res' = [res EXCEPT !.export = IF ok THEN "ok" ELSE "failed"]
        /\ IF ok THEN Goto("switch") ELSE Exit(1)
    /\ UNCHANGED <<verifierVars, commandVars, toolVars>>
    /\ UNCHANGED <<variant, args, session, cleanups>>

\* the value of --dynamodb-table when the flag is given
LockTableName == "pulumi-locks"

\* loginUrl of loginToS3Backend(bucket, region, dynamoDBTable):
\* &dynamodb_table=<table> is appended when a table name was passed
loginUrl(run, dynamoDBTable) ==
    [i \in DOMAIN run |->
        IF run[i].name = "pulumi login"
        THEN WithOpts(run[i], [NoOpts EXCEPT !.table = dynamoDBTable])
        ELSE run[i]]

\* the dynamoDBTable migrateStack passes to loginToS3Backend: the flag's value
dynamoDBTable(v, a) ==
    IF v # "s3cloud" /\ a.lockTable THEN LockTableName ELSE "none"

\* SWITCH_BACKEND: loginToS3Backend(bucket, region, table) of the Cloud-to-S3
\* scripts, loginToPulumiCloud(accessToken) of the S3-to-Cloud script
SwitchBackend ==
    /\ pc = "switch"
    /\ \E lo \in BOOLEAN, li \in BOOLEAN, who \in BOOLEAN :
        LET whoami == variant = "s3cloud" /\ li
            success == li /\ (whoami => who)
        IN  /\ ~whoami => who
            /\ cmds' = cmds \o loginUrl(logoutThenLogin("target", lo, li),
                                         dynamoDBTable(variant, args))
                            \o (IF whoami THEN <<Run0("pulumi whoami", who)>> ELSE <<>>)
            /\ session' = AfterLogin(AfterLogout(session, lo), "target", li)
            /\ res' = [res EXCEPT !.login = IF success THEN "ok" ELSE "failed"]
            /\ IF success THEN Goto("createStack") ELSE Exit(1)
    /\ UNCHANGED <<verifierVars, commandVars, toolVars>>
    /\ UNCHANGED <<variant, args, tempDir, cleanups>>

\* the stack name createStackInPulumiCloud passes to `pulumi stack init`
cloudInitName(stack, organization) ==
    LET orgFromStack == IF IncludesSlash(stack) THEN Split(stack)[1] ELSE <<>>
        name == IF IncludesSlash(stack) THEN Split(stack)[2] ELSE stack
        targetOrg == IF Truthy(organization) THEN organization ELSE orgFromStack
    IN  IF Truthy(targetOrg) THEN targetOrg \o <<"/">> \o name ELSE stack

\* --secrets-provider of `pulumi stack init` in createStackInS3 (spinner
\* script): the awskms URL for "awskms", nothing for "passphrase" and "default"
initSecrets(a, kmsAlias) ==
    IF a.secretsProvider = "awskms"
    THEN [NoOpts EXCEPT !.secrets = SecretsProviderUrl(kmsAlias, a.region)]
    ELSE NoOpts

\* createStackInS3 of the spinner script with the fallback attempted twice
createStackInS3Twice(a, kmsAlias) ==
    LET init(name, org, ok) ==
            WithOpts(Cmd("pulumi stack init", name, org, ok), initSecrets(a, kmsAlias))
        withOrg == Truthy(orgName(a.stack)) /\ Truthy(stackName(a.stack))
    IN  IF withOrg
        THEN {[cmds |-> <<init(StackNameOrStack(a.stack), orgName(a.stack), TRUE)>>,
               ok |-> TRUE]}
             \cup
             {[cmds |-> <<init(StackNameOrStack(a.stack), orgName(a.stack), FALSE),
                          init(stackName(a.stack), <<>>, FALSE),
                          init(stackName(a.stack), <<>>, ok)>>,
               ok |-> ok] : ok \in BOOLEAN}
        ELSE {[cmds |-> <<init(StackNameOrStack(a.stack), <<>>, ok)>>, ok |-> ok] :
                ok \in BOOLEAN}

\* createStackInS3 of the spinner script: `pulumi stack init` with
\* --organization when the id has both parts, and on its failure one more
\* attempt with the bare stack name
createStackInS3(a, kmsAlias) ==
    LET init(name, org, ok) ==
            WithOpts(Cmd("pulumi stack init", name, org, ok), initSecrets(a, kmsAlias))
        withOrg == Truthy(orgName(a.stack)) /\ Truthy(stackName(a.stack))
    IN  IF withOrg
        THEN {[cmds |-> <<init(StackNameOrStack(a.stack), orgName(a.stack), TRUE)>>,
               ok |-> TRUE]}
             \cup
             {[cmds |-> <<init(StackNameOrStack(a.stack), orgName(a.stack), FALSE),
                          init(stackName(a.stack), <<>>, ok)>>,
               ok |-> ok] : ok \in BOOLEAN}
        ELSE {[cmds |-> <<init(StackNameOrStack(a.stack), <<>>, ok)>>, ok |-> ok] :
                ok \in BOOLEAN}

\* the `pulumi stack init` attempts of script v and whether the stack was created:
\* createStackInS3 (plain), createStackInS3 with its fallback (spinner),
\* createStackInPulumiCloud (s3cloud)
createStack(v, a, kmsAlias) ==
    LET init(name, org, ok) == Cmd("pulumi stack init", name, org, ok)
    IN  IF v = "plain"
        THEN {[cmds |-> <<init(stackName(a.stack), <<>>, ok)>>, ok |-> ok] :
                ok \in BOOLEAN}
        ELSE IF v = "s3cloud"
        THEN {[cmds |-> <<init(cloudInitName(a.stack, a.organization), <<>>, ok)>>,
               ok |-> ok] : ok \in BOOLEAN}
        ELSE createStackInS3(a, kmsAlias)

\* CREATE_STACK with the result of the creation not checked
CreateStackUnchecked ==
    /\ pc = "createStack"
    /\ \E run \in createStack(variant, args, res.kmsAlias) :
        /\ cmds' = cmds \o run.cmds
        /\ res' = [res EXCEPT !.create = IF run.ok THEN "ok" ELSE "failed"]
        /\ Goto("import")
    /\ UNCHANGED <<verifierVars, commandVars, toolVars>>
    /\ UNCHANGED <<variant, args, session, tempDir, cleanups>>

\* CREATE_STACK: createStackInS3 / createStackInPulumiCloud, then exit on failure
CreateStack ==
    /\ pc = "createStack"
    /\ \E run \in createStack(variant, args, res.kmsAlias) :
        /\ cmds' = cmds \o run.cmds
        /\ res' = [res EXCEPT !.create = IF run.ok THEN "ok" ELSE "failed"]
        /\ IF run.ok THEN Goto("import") ELSE Exit(1)
    /\ UNCHANGED <<verifierVars, commandVars, toolVars>>
    /\ UNCHANGED <<variant, args, session, tempDir, cleanups>>

\* the stack id importStackState passes to `pulumi stack import`
importTarget(v, a) ==
    IF v = "plain" THEN a.stack
    ELSE IF v = "spinner" THEN StackNameOrStack(a.stack)
    ELSE targetStack(a.stack, a.organization)

AfterImport == IF variant = "s3cloud" THEN "changeSecretTarget" ELSE "verify"

\* IMPORT_STATE with the result of the import not checked
ImportStackStateUnchecked ==
    /\ pc = "import"
    /\ \E ok \in BOOLEAN :
        /\ cmds' = Append(cmds, Cmd("pulumi stack import", importTarget(variant, args),
                                    <<>>, ok))
        /\ res' = [res EXCEPT !.import = IF ok THEN "ok" ELSE "failed"]
        /\ Goto(AfterImport)
    /\ UNCHANGED <<verifierVars, commandVars, toolVars>>
    /\ UNCHANGED <<variant, args, session, tempDir, cleanups>>

\* IMPORT_STATE: importStackState, then exit on failure
ImportStackState ==
    /\ pc = "import"
    /\ \E ok \in BOOLEAN :
        /\ cmds' = Append(cmds, Cmd("pulumi stack import", importTarget(variant, args),
                                    <<>>, ok))
        /\ res' = [res EXCEPT !.import = IF ok THEN "ok" ELSE "failed"]
        /\ IF ok THEN Goto(AfterImport) ELSE Exit(1)
    /\ UNCHANGED <<verifierVars, commandVars, toolVars>>
    /\ UNCHANGED <<variant, args, session, tempDir, cleanups>>

\* changeSecretsProvider of the S3-to-Cloud script (target stack, provider
\* "default"); on failure the user is asked whether to continue
ChangeSecretsProvider ==
    /\ pc = "changeSecretTarget"
    /\ \E ok \in BOOLEAN, response \in Responses :
        /\ cmds' = Append(cmds, Cmd("pulumi stack change-secrets-provider",
                                    targetStack(args.stack, args.organization), <<>>, ok))
        /\ IF ok \/ LoggerConfirm(args, response, FALSE)
           THEN Goto("verify") /\ UNCHANGED <<tempDir, cleanups>>
           ELSE CleanUpTempFiles /\ Exit(1)
    /\ UNCHANGED <<verifierVars, commandVars, toolVars>>
    /\ UNCHANGED <<variant, args, session, res>>

VerifyOutcomesOf(v) ==
    IF v = "plain" THEN VerifyOutcomesPlain
    ELSE IF v = "spinner" THEN VerifyOutcomesSpinner
    ELSE VerifyOutcomesS3Cloud

\* VERIFY run whatever --skip-verify says
VerifyStepAlways ==
    /\ pc = "verify"
    /\ \E o \in VerifyOutcomesOf(variant) :
            /\ cmds' = Append(cmds, Cmd("pulumi preview", importTarget(variant, args),
                                        <<>>, o[1]))
            /\ res' = [res EXCEPT !.preview = IF o[1] THEN "ok" ELSE "failed",
                                  !.verify = Verdict(o[2])]
            /\ IF o[2] THEN Goto("deleteSource") ELSE Goto("confirm")
    /\ UNCHANGED <<verifierVars, commandVars, toolVars>>
    /\ UNCHANGED <<variant, args, session, tempDir, cleanups>>

\* VERIFY: skipped under --skip-verify, else `pulumi preview --diff` classified
\* by verifyMigration
VerifyStep ==
    /\ pc = "verify"
    /\ IF args.skipVerify
       THEN /\ Goto("deleteSource")
            /\ UNCHANGED <<cmds, res>>
       ELSE \E o \in VerifyOutcomesOf(variant) :
            /\ cmds' = Append(cmds, Cmd("pulumi preview", importTarget(variant, args),
                                        <<>>, o[1]))
            /\ res' = [res EXCEPT !.preview = IF o[1] THEN "ok" ELSE "failed",
                                  !.verify = Verdict(o[2])]
            /\ IF o[2] THEN Goto("deleteSource") ELSE Goto("confirm")
    /\ UNCHANGED <<verifierVars, commandVars, toolVars>>
    /\ UNCHANGED <<variant, args, session, tempDir, cleanups>>

\* CONFIRM_ON_MISMATCH exiting on a refusal without cleanUpTempFiles()
ConfirmOnMismatchNoCleanup ==
    /\ pc = "confirm"
    /\ \E response \in Responses :
        LET proceed == Confirm(variant, args, response)
            prompted == Prompted(variant, args)
        IN
        /\ ~prompted => response = "null"
        /\ res' = [res EXCEPT !.answer = IF proceed THEN "yes" ELSE "no",
                              !.typed = IF prompted THEN response ELSE "none"]
        /\ IF proceed THEN Goto("deleteSource") ELSE Exit(1)
    /\ UNCHANGED <<tempDir, cleanups>>
    /\ UNCHANGED <<verifierVars, commandVars, toolVars>>
    /\ UNCHANGED <<variant, args, cmds, session>>

\* CONFIRM_ON_MISMATCH: "Do you want to continue with the migration?"
ConfirmOnMismatch ==
    /\ pc = "confirm"
    /\ \E response \in Responses :
        LET proceed == Confirm(variant, args, response)
            prompted == Prompted(variant, args)
        IN
        /\ ~prompted => response = "null"
        /\ res' = [res EXCEPT !.answer = IF proceed THEN "yes" ELSE "no",
                              !.typed = IF prompted THEN response ELSE "none"]
        /\ IF proceed
           THEN Goto("deleteSource") /\ UNCHANGED <<tempDir, cleanups>>
           ELSE CleanUpTempFiles /\ Exit(1)
    /\ UNCHANGED <<verifierVars, commandVars, toolVars>>
    /\ UNCHANGED <<variant, args, cmds, session>>

\* deleteSourceStack: the commands it runs, the session it leaves, the session
\* `pulumi stack rm` ran in ("none" when it was not run) and the value returned
deleteSourceStack(v, a, s) ==
    {[cmds |-> logoutThenLogin("source", lo, li)
               \o (IF v = "s3cloud" /\ ~li THEN <<>>
                   ELSE <<Cmd("pulumi stack rm", a.stack, <<>>, rm)>>),
      session |-> AfterLogin(AfterLogout(s, lo), "source", li),
      rmSession |-> IF v = "s3cloud" /\ ~li THEN "none"
                    ELSE AfterLogin(AfterLogout(s, lo), "source", li),
      ok |-> IF v = "s3cloud" /\ ~li THEN FALSE ELSE rm] :
        lo \in BOOLEAN, li \in BOOLEAN, rm \in BOOLEAN}

\* DELETE_SOURCE with a failed deletion ending the run with exit code 1
DeleteSourceFatal ==
    /\ pc = "deleteSource"
    /\ \E response \in Responses :
        LET shouldDelete == variant = "plain" \/ args.yes
                            \/ LoggerConfirm(args, response, FALSE)
        IN  IF args.deleteSource /\ shouldDelete
            THEN \E run \in deleteSourceStack(variant, args, session) :
                    /\ cmds' = cmds \o run.cmds
                    /\ session' = run.session
                    /\ res' = [res EXCEPT !.delete = IF run.ok THEN "ok" ELSE "failed",
                                          !.rmSession = run.rmSession]
                    /\ IF run.ok THEN Goto("cleanup") ELSE Exit(1)
            ELSE UNCHANGED <<cmds, session, res>> /\ Goto("cleanup")
    /\ UNCHANGED <<verifierVars, commandVars, toolVars>>
    /\ UNCHANGED <<variant, args, tempDir, cleanups>>

\* DELETE_SOURCE: only under --delete-source, and (spinner scripts) only when
\* --yes is given or the user confirms
DeleteSource ==
    /\ pc = "deleteSource"
    /\ \E response \in Responses :
        LET shouldDelete == variant = "plain" \/ args.yes
                            \/ LoggerConfirm(args, response, FALSE)
        IN  IF args.deleteSource /\ shouldDelete
            THEN \E run \in deleteSourceStack(variant, args, session) :
                    /\ cmds' = cmds \o run.cmds
                    /\ session' = run.session
                    /\ res' = [res EXCEPT !.delete = IF run.ok THEN "ok" ELSE "failed",
                                          !.rmSession = run.rmSession]
            ELSE UNCHANGED <<cmds, session, res>>
    /\ Goto("cleanup")
    /\ UNCHANGED <<verifierVars, commandVars, toolVars>>
    /\ UNCHANGED <<variant, args, tempDir, cleanups>>

\* CLEANUP and the success report; migrateStack then returns and the process
\* ends with exit code 0
CleanUpAndReport ==
    /\ pc = "cleanup"
    /\ CleanUpTempFiles
    /\ res' = [res EXCEPT !.reported = TRUE]
    /\ Exit(0)
    /\ UNCHANGED <<verifierVars, commandVars, toolVars>>
    /\ UNCHANGED <<variant, args, cmds, session>>

\* one step of a migration run
Next ==
    \/ CheckArgs
    \/ CheckPulumiInstalled
    \/ CheckAwsConfiguration
    \/ ProvisionBucket
    \/ ProvisionLockTable
    \/ ProvisionKms
    \/ ChangeSecretProvider
    \/ LoginToSource
    \/ ExportStackState
    \/ SwitchBackend
    \/ CreateStack
    \/ ImportStackState
    \/ ChangeSecretsProvider
    \/ VerifyStep
    \/ ConfirmOnMismatch
    \/ DeleteSource
    \/ CleanUpAndReport

Spec == Init /\ [][Next]_vars

----------------------------------------------------------------------------
(* The verifier on its own: every output, every exit status, every script *)

InitVerifier ==
    /\ variant \in Variants
    /\ args \in {a \in ArgsOf(variant) :
                    /\ a.stack = <<"dev">> /\ a.bucket /\ a.createBucket
                    /\ ~a.skipVerify /\ ~a.deleteSource /\ ~a.yes /\ a.interactive
                    /\ a.secretsProvider = "default" /\ a.organization = <<>>
                    /\ ~a.help /\ a.region = "eu-west-3" /\ ~a.lockTable
                    /\ ~a.createDynamodb /\ a.createKms}
    /\ pc = "verify"
    /\ cmds = <<>>
    /\ session = "target"
    /\ tempDir = "state"
    /\ cleanups = 0
    /\ exitCode = -1
    /\ res = NoResults
    /\ vSuccess \in BOOLEAN
    /\ vOutput \in Outputs
    /\ vVerdict = "none"
    /\ CommandIdle
    /\ ToolsIdle

\* verifyMigration applied to the result of the preview command
Classify ==
    /\ vVerdict = "none"
    /\ vVerdict' = Verdict(verifyMigration(variant, vSuccess, Text(vOutput)))
    /\ UNCHANGED <<vSuccess, vOutput>>
    /\ UNCHANGED <<commandVars, toolVars>>
    /\ UNCHANGED runVars

NextVerifier == Classify

SpecVerifier == InitVerifier /\ [][NextVerifier]_vars

----------------------------------------------------------------------------
(* executeCommand on its own: one caller, its commands one after the other *)

\* exit status of a child process, a decimal numeral
ExitCodes == {"0", "1", "2"}

\* what a child writes to its standard output and standard error
Stdouts == {<<>>, <<"v3">>, <<" ", "v3", "\n">>}

Stderrs == {<<>>, <<"denied">>}

\* String.prototype.trim()
RECURSIVE Trim(_)
Trim(s) ==
    IF s = <<>> THEN s
    ELSE IF s[1] \in Whitespace THEN Trim(Tail(s))
    ELSE IF s[Len(s)] \in Whitespace THEN Trim(SubSeq(s, 1, Len(s) - 1))
    ELSE s

\* the child processes executeCommand can meet once Deno.run has spawned one:
\* its exit status, its output, and whether reading its pipes failed
Processes ==
    [spawned : {TRUE}, code : ExitCodes, stdout : Stdouts, stderr : Stderrs,
     io : {"ok", "error"}]

\* the message of the Error thrown for a child that exited with non-zero status
exitMessage(v, p) ==
    IF v = "plain"
    THEN <<"Command failed with exit code ", p.code, ": ">> \o p.stderr
    ELSE IF p.stderr # <<>> THEN p.stderr
    ELSE <<"Command exited with code ", p.code>>

\* the try block of executeCommand: Deno.run, await Promise.all([status,
\* output, stderrOutput]), throw on !status.success, return the trimmed output
tryBlock(v, p) ==
    IF ~p.spawned THEN [kind |-> "throw", text |-> <<"spawn failed">>]
    ELSE IF p.io = "error" THEN [kind |-> "throw", text |-> <<"read failed">>]
    ELSE IF p.code # "0" THEN [kind |-> "throw", text |-> exitMessage(v, p)]
    ELSE [kind |-> "return", text |-> Trim(p.stdout)]

\* executeCommand without its catch block: the Error reaches the caller
executeCommandNoCatch(v, p) ==
    LET b == tryBlock(v, p) IN
    IF b.kind = "throw"
    THEN [success |-> FALSE, output |-> <<>>, thrown |-> TRUE, returned |-> FALSE]
    ELSE [success |-> TRUE, output |-> b.text, thrown |-> FALSE, returned |-> TRUE]

\* executeCommand: the catch block turns every Error into
\* { output: error.message, success: false }
executeCommand(v, p) ==
    LET b == tryBlock(v, p) IN
    IF b.kind = "throw"
    THEN [success |-> FALSE, output |-> b.text, thrown |-> FALSE, returned |-> TRUE]
    ELSE [success |-> TRUE, output |-> b.text, thrown |-> FALSE, returned |-> TRUE]

\* the commands of a caller that uses no result to decide on the next command:
\* checkPulumiInstalled, and loginToS3Backend up to its login
CallerCommands == {<<"pulumi version">>, <<"pulumi logout", "pulumi login">>}

InitCommand ==
    /\ variant \in Variants
    /\ args \in {a \in ArgsOf(variant) :
                    /\ a.stack = <<"dev">> /\ a.bucket /\ a.createBucket
                    /\ a.skipVerify /\ ~a.deleteSource /\ ~a.yes /\ a.interactive
                    /\ a.secretsProvider = "default" /\ a.organization = <<>>
                    /\ ~a.help /\ a.region = "eu-west-3" /\ ~a.lockTable
                    /\ ~a.createDynamodb /\ a.createKms}
    /\ pc = "checkPulumi"
    /\ cmds = <<>>
    /\ session = "source"
    /\ tempDir = "absent"
    /\ cleanups = 0
    /\ exitCode = -1
    /\ res = NoResults
    /\ VerifierIdle
    /\ exec \in {[queue |-> q, at |-> "caller", inFlight |-> 0, proc |-> NoProcess,
                  ret |-> NoReturn] : q \in CallerCommands}
    /\ ToolsIdle

\* the caller's next executeCommand issued while the previous call is pending
SpawnUnawaited ==
    /\ exec.queue # <<>>
    /\ \E started \in BOOLEAN :
        IF started
        THEN exec' = [exec EXCEPT !.queue = Tail(@), !.at = "awaiting",
                                  !.inFlight = @ + 1,
                                  !.proc = [NoProcess EXCEPT !.spawned = TRUE],
                                  !.ret = NoReturn]
        ELSE exec' = [exec EXCEPT !.queue = Tail(@), !.proc = NoProcess,
                                  !.ret = executeCommand(variant, NoProcess)]
    /\ UNCHANGED <<verifierVars, toolVars>>
    /\ UNCHANGED runVars

\* the caller's `await executeCommand(...)` up to Deno.run: the child is
\* spawned, or Deno.run throws and executeCommand returns at once
Spawn ==
    /\ exec.at = "caller"
    /\ exec.queue # <<>>
    /\ \E started \in BOOLEAN :
        IF started
        THEN exec' = [exec EXCEPT !.queue = Tail(@), !.at = "awaiting",
                                  !.inFlight = @ + 1,
                                  !.proc = [NoProcess EXCEPT !.spawned = TRUE],
                                  !.ret = NoReturn]
        ELSE exec' = [exec EXCEPT !.queue = Tail(@), !.proc = NoProcess,
                                  !.ret = executeCommand(variant, NoProcess)]
    /\ UNCHANGED <<verifierVars, toolVars>>
    /\ UNCHANGED runVars

\* the rest of executeCommand: the child terminates, which ends the reads of
\* its pipes (with its output or with an error), and the result is returned
Settle ==
    /\ exec.at = "awaiting"
    /\ \E p \in Processes :
        exec' = [exec EXCEPT !.at = "caller", !.inFlight = @ - 1, !.proc = p,
                             !.ret = executeCommand(variant, p)]
    /\ UNCHANGED <<verifierVars, toolVars>>
    /\ UNCHANGED runVars

NextCommand ==
    \/ Spawn
    \/ Settle

SpecCommand == InitCommand /\ [][NextCommand]_vars

----------------------------------------------------------------------------
(* The S3 backend URL: built by loginToS3Backend, read by parseS3BackendUrl *)

\* the run variables of a specification that exercises one function only
Parked ==
    /\ variant = "spinner"
    /\ args \in {a \in ArgsOf("spinner") :
                    /\ a.stack = <<"dev">> /\ a.bucket /\ a.createBucket
                    /\ a.skipVerify /\ ~a.deleteSource /\ ~a.yes /\ a.interactive
                    /\ a.secretsProvider = "default" /\ a.organization = <<>>
                    /\ ~a.help /\ a.region = "eu-west-3" /\ ~a.lockTable
                    /\ ~a.createDynamodb /\ a.createKms}
    /\ pc = "parked"
    /\ cmds = <<>>
    /\ session = "loggedout"
    /\ tempDir = "absent"
    /\ cleanups = 0
    /\ exitCode = -1
    /\ res = NoResults
    /\ VerifierIdle
    /\ CommandIdle

\* the characters of bucket, region and table names: letters, digits, hyphen
NameChars == {"a", "1", "-"}

MaxNameLen == 2

\* the non-empty names of at most MaxNameLen characters
Names == UNION {[1..n -> NameChars] : n \in 1..MaxNameLen}

\* String.prototype.split(sep) for a one-character separator
RECURSIVE SplitBy(_, _)
SplitBy(s, sep) ==
    IF \A i \in 1..Len(s) : s[i] # sep THEN <<s>>
    ELSE LET i == CHOOSE k \in 1..Len(s) :
                     s[k] = sep /\ \A j \in 1..(k - 1) : s[j] # sep
         IN <<SubSeq(s, 1, i - 1)>> \o SplitBy(SubSeq(s, i + 1, Len(s)), sep)

\* the S3 login URL without its "&": the table parameter runs into the region
buildLoginUrlNoAmpersand(bucket, region, table) ==
    <<"s3://">> \o bucket \o <<"?", "region", "=">> \o region
        \o (IF Truthy(table) THEN <<"dynamodb_table", "=">> \o table ELSE <<>>)

\* loginToS3Backend: `s3://${bucket}\?region=${region}`, then
\* `&dynamodb_table=${dynamoDBTable}` if (dynamoDBTable)
buildLoginUrl(bucket, region, table) ==
    <<"s3://">> \o bucket \o <<"?", "region", "=">> \o region
        \o (IF Truthy(table) THEN <<"&", "dynamodb_table", "=">> \o table ELSE <<>>)

\* application/x-www-form-urlencoded decoding of a name or a value: "+" is a
\* space (no text here holds a percent sign)
FormDecode(s) == [i \in 1..Len(s) |-> IF s[i] = "+" THEN " " ELSE s[i]]

\* new URLSearchParams(query): the pairs of the non-empty pieces between "&",
\* each cut at its first "="
URLSearchParams(query) ==
    LET q == IF query # <<>> /\ query[1] = "?" THEN Tail(query) ELSE query
        pieces == SplitBy(q, "&")
        pair(piece) ==
            LET kv == SplitBy(piece, "=")
            IN [name |-> FormDecode(kv[1]),
                value |-> FormDecode(SubSeq(piece, Len(kv[1]) + 2, Len(piece)))]
    IN [i \in {j \in 1..Len(pieces) : pieces[j] # <<>>} |-> pair(pieces[i])]

\* URLSearchParams.get(name): the first value of that name, else null (<<>>
\* stands for null: both are falsy and get's result is only used under ||)
ParamsGet(params, name) ==
    LET hits == {i \in DOMAIN params : params[i].name = <<name>>}
    IN IF hits = {} THEN <<>>
       ELSE params[CHOOSE i \in hits : \A j \in hits : i <= j].value

\* process exit of parseS3BackendUrl's catch block
ParseFailed == [ok |-> FALSE, bucket |-> <<>>, region |-> <<>>, table |-> <<>>]

\* parseS3BackendUrl(backendUrl): table <<>> is dynamoDBTable: undefined
parseS3BackendUrl(backendUrl, argsRegion) ==
    IF backendUrl = <<>> \/ backendUrl[1] # "s3://" THEN ParseFailed
    ELSE LET parts == SplitBy(Tail(backendUrl), "?")
             bucket == parts[1]
             queryString == IF Len(parts) >= 2 THEN parts[2] ELSE <<>>
             params == URLSearchParams(queryString)
             region == ParamsGet(params, "region")
         IN IF ~Truthy(bucket) THEN ParseFailed
            ELSE [ok |-> TRUE, bucket |-> bucket,
                  region |-> IF Truthy(region) THEN region ELSE argsRegion,
                  table |-> ParamsGet(params, "dynamodb_table")]

\* the --region default of the S3-to-Cloud script
S3CloudDefaultRegion == <<"us-west-2">>

InitUrl ==
    /\ Parked
    /\ url \in [phase : {"parts"}, bucket : Names, region : Names,
                table : Names \cup {<<>>}, text : {<<>>}, parsed : {ParseFailed}]
    /\ reg = Idle /\ envFile = Idle /\ eks = Idle /\ policy = Idle

\* loginToS3Backend builds the URL it logs in with
BuildUrl ==
    /\ url.phase = "parts"
    /\ url' = [url EXCEPT !.phase = "built",
                          !.text = buildLoginUrl(url.bucket, url.region, url.table)]
    /\ UNCHANGED <<reg, envFile, eks, policy>>
    /\ UNCHANGED <<runVars, verifierVars, commandVars>>

\* the S3-to-Cloud script is given that URL as --backend and parses it
ParseUrl ==
    /\ url.phase = "built"
    /\ url' = [url EXCEPT !.phase = "parsed",
                          !.parsed = parseS3BackendUrl(url.text, S3CloudDefaultRegion)]
    /\ UNCHANGED <<reg, envFile, eks, policy>>
    /\ UNCHANGED <<runVars, verifierVars, commandVars>>

NextUrl ==
    \/ BuildUrl
    \/ ParseUrl

SpecUrl == InitUrl /\ [][NextUrl]_vars

----------------------------------------------------------------------------
(* The region a script works in: flag, environment, default, prompt *)

\* the scripts that take --region with a default from AWS_REGION
RegionScripts == {"plain", "spinner", "s3cloud", "initializer"}

\* region names a user passes or exports; "" is a flag not given, a variable
\* not set
RegionInputs == {"", "us-east-1", "eu-west-3", "eu-north-1"}

\* the literal after `Deno.env.get("AWS_REGION") ||` in each script
HardcodedDefault(script) == IF script = "s3cloud" THEN "us-west-2" ELSE "eu-west-3"

\* parse(Deno.args, { default: { region: Deno.env.get("AWS_REGION") || d } })
argsRegion(script, flag, env) ==
    IF flag # "" THEN flag
    ELSE IF env # "" THEN env
    ELSE HardcodedDefault(script)

\* the regions the initializer offers in its prompt
regions ==
    <<"us-east-1", "us-east-2", "us-west-1", "us-west-2",
      "eu-west-1", "eu-west-2", "eu-west-3", "eu-central-1",
      "ap-northeast-1", "ap-northeast-2", "ap-southeast-1", "ap-southeast-2">>

\* regions.indexOf(region), 0-based, -1 when absent
indexOf(list, x) ==
    IF \E i \in 1..Len(list) : list[i] = x
    THEN (CHOOSE i \in 1..Len(list) : list[i] = x /\ \A j \in 1..(i - 1) : list[j] # x) - 1
    ELSE -1

\* what the user types at a selection prompt: end of input, nothing, numbers,
\* something else
SelectResponses == {"<null>", "", "2", "13", "x"}

\* parseInt(response); NaN is -1000
NaN == -1000

parseInt(response) ==
    IF response = "2" THEN 2 ELSE IF response = "13" THEN 13 ELSE NaN

\* Logger.select(question, options, defaultIndex)
select(interactive, options, defaultIndex, response) ==
    IF ~interactive THEN options[defaultIndex + 1]
    ELSE IF response = "<null>" \/ response = "" THEN options[defaultIndex + 1]
    ELSE LET selectedIndex == parseInt(response) - 1
         IN IF parseInt(response) = NaN \/ selectedIndex < 0
               \/ selectedIndex >= Len(options)
            THEN options[defaultIndex + 1]
            ELSE options[selectedIndex + 1]

\* initializePulumiS3Project: let region = args.region || "eu-west-3", then the
\* selection prompt when args.interactive
initializerRegion(parsed, interactive, response) ==
    LET region == IF parsed # "" THEN parsed ELSE "eu-west-3"
    IN IF interactive
       THEN select(interactive, regions,
                   IF indexOf(regions, region) # -1 THEN indexOf(regions, region) ELSE 0,
                   response)
       ELSE region

InitRegion ==
    /\ Parked
    /\ reg \in {r \in [phase : {"start"}, script : RegionScripts, flag : RegionInputs,
                       env : RegionInputs, interactive : BOOLEAN,
                       response : SelectResponses, parsed : {""}, used : {""}] :
                   r.script # "initializer" => r.interactive /\ r.response = ""}
    /\ url = Idle /\ envFile = Idle /\ eks = Idle /\ policy = Idle

\* the script starts: parse(Deno.args, ...)
ParseRegion ==
    /\ reg.phase = "start"
    /\ reg' = [reg EXCEPT !.phase = "parsed",
                          !.parsed = argsRegion(reg.script, reg.flag, reg.env)]
    /\ UNCHANGED <<url, envFile, eks, policy>>
    /\ UNCHANGED <<runVars, verifierVars, commandVars>>

\* the region the script hands to its AWS commands and its backend URL
UseRegion ==
    /\ reg.phase = "parsed"
    /\ reg' = [reg EXCEPT !.phase = "used",
                          !.used = IF reg.script = "initializer"
                                   THEN initializerRegion(reg.parsed, reg.interactive,
                                                          reg.response)
                                   ELSE reg.parsed]
    /\ UNCHANGED <<url, envFile, eks, policy>>
    /\ UNCHANGED <<runVars, verifierVars, commandVars>>

NextRegion ==
    \/ ParseRegion
    \/ UseRegion

SpecRegion == InitRegion /\ [][NextRegion]_vars

----------------------------------------------------------------------------
(* aws-param-store-env: readEnvFile and the parameters main writes *)

\* the variables a .env file of the model defines
EnvKeys == {"A", "B"}

\* a trimmed line of a .env file: empty, the annotation "#@notSecured", another
\* comment, text without "=", or key=value (value "" is `KEY=`)
EnvLines ==
    {[kind |-> k, key |-> "", value |-> ""] :
        k \in {"empty", "annotation", "comment", "text"}}
    \cup {[kind |-> "definition", key |-> k, value |-> v] :
            k \in EnvKeys, v \in {"1", "2", ""}}

MaxEnvLines == 3

EnvFiles == UNION {[1..n -> EnvLines] : n \in 0..MaxEnvLines}

\* readEnvFile before its loop
StartOfFile(lines) ==
    [phase |-> "reading", lines |-> lines, i |-> 1, env |-> <<>>,
     nonSecrets |-> {}, nextLineNotSecured |-> FALSE, params |-> <<>>, at |-> 1]

\* env[key] = value: Object.entries keeps the order of first insertion
SetEnv(env, key, value) ==
    IF \E n \in 1..Len(env) : env[n].key = key
    THEN [n \in 1..Len(env) |-> IF env[n].key = key
                                THEN [key |-> key, value |-> value] ELSE env[n]]
    ELSE Append(env, [key |-> key, value |-> value])

\* one iteration of readEnvFile's loop over the lines of the file
readLine(f) ==
    LET line == f.lines[f.i]
        next == [f EXCEPT !.i = @ + 1]
    IN  IF line.kind = "empty" THEN next
        ELSE IF line.kind = "annotation" THEN [next EXCEPT !.nextLineNotSecured = TRUE]
        ELSE IF line.kind = "comment" THEN next
        ELSE IF line.kind = "definition"
        THEN [next EXCEPT !.env = SetEnv(f.env, line.key, line.value),
                          !.nonSecrets = IF f.nextLineNotSecured
                                         THEN @ \cup {line.key} ELSE @,
                          !.nextLineNotSecured = FALSE]
        ELSE next

\* setParameterStoreValue: secret ? "SecureString" : "String"
paramType(secret) == IF secret THEN "SecureString" ELSE "String"

InitEnvFile ==
    /\ Parked
    /\ envFile \in {StartOfFile(lines) : lines \in EnvFiles}
    /\ url = Idle /\ reg = Idle /\ eks = Idle /\ policy = Idle

\* readEnvFile: the next line of the file
ReadLine ==
    /\ envFile.phase = "reading"
    /\ envFile.i <= Len(envFile.lines)
    /\ envFile' = readLine(envFile)
    /\ UNCHANGED <<url, reg, eks, policy>>
    /\ UNCHANGED <<runVars, verifierVars, commandVars>>

\* main: readEnvFile has returned; no variable at all ends the run
CheckEnv ==
    /\ envFile.phase = "reading"
    /\ envFile.i > Len(envFile.lines)
    /\ envFile' = [envFile EXCEPT !.phase = IF envFile.env = <<>> THEN "exited"
                                            ELSE "writing"]
    /\ UNCHANGED <<url, reg, eks, policy>>
    /\ UNCHANGED <<runVars, verifierVars, commandVars>>

\* main: the next entry of env; an empty value is skipped, any other is put
\* with the type its key has (the put succeeds or fails)
PutParameter ==
    /\ envFile.phase = "writing"
    /\ envFile.at <= Len(envFile.env)
    /\ LET entry == envFile.env[envFile.at]
           isSecret == entry.key \notin envFile.nonSecrets
       IN  IF entry.value = ""
           THEN envFile' = [envFile EXCEPT !.at = @ + 1]
           ELSE \E success \in BOOLEAN :
                envFile' = [envFile EXCEPT
                    !.at = @ + 1,
                    !.params = Append(@, [key |-> entry.key, value |-> entry.value,
                                          type |-> paramType(isSecret),
                                          success |-> success])]
    /\ UNCHANGED <<url, reg, eks, policy>>
    /\ UNCHANGED <<runVars, verifierVars, commandVars>>

NextEnvFile ==
    \/ ReadLine
    \/ CheckEnv
    \/ PutParameter

SpecEnvFile == InitEnvFile /\ [][NextEnvFile]_vars

----------------------------------------------------------------------------
(* update-eks-cidrs: updateEKSPublicAccessCIDRs *)

\* CIDR blocks, each one token
Cidrs == {"10.0.0.0/8", "192.0.2.1/32", "203.0.113.0/24"}

MaxCidrs == 2

\* lists of at most MaxCidrs CIDR blocks, repetitions included
CidrLists == UNION {[1..n -> Cidrs] : n \in 0..MaxCidrs}

\* the elements of a list
Elements(list) == {list[i] : i \in DOMAIN list}

\* Array.from(new Set(list)): the elements in the order of first occurrence
RECURSIVE Distinct(_)
Distinct(list) ==
    IF list = <<>> THEN <<>>
    ELSE LET front == Distinct(SubSeq(list, 1, Len(list) - 1))
             last == list[Len(list)]
         IN IF last \in Elements(front) THEN front ELSE Append(front, last)

\* Array.prototype.join(",")
RECURSIVE Join(_)
Join(list) ==
    IF list = <<>> THEN <<>>
    ELSE IF Len(list) = 1 THEN <<list[1]>>
    ELSE <<list[1], ",">> \o Join(Tail(list))

\* the list AWS reads from publicAccessCidrs=<text>
RECURSIVE Flatten(_)
Flatten(pieces) ==
    IF pieces = <<>> THEN <<>> ELSE pieces[1] \o Flatten(Tail(pieces))

CidrsOf(text) == IF text = <<>> THEN <<>> ELSE Flatten(SplitBy(text, ","))

\* the set built from the requested CIDRs alone, the existing ones forgotten
combineCidrsReplacing(existingCIDRs, ipsToAdd) ==
    [addedIPs |-> Distinct(ipsToAdd), combinedCIDRs |-> Distinct(ipsToAdd)]

\* cidrSet = new Set(existingCIDRs), then every ip of ipsToAdd that the set
\* lacks is added to it and to addedIPs
combineCidrs(existingCIDRs, ipsToAdd) ==
    [addedIPs |-> SelectSeq(Distinct(ipsToAdd),
                            LAMBDA ip : ip \notin Elements(existingCIDRs)),
     combinedCIDRs |-> Distinct(existingCIDRs \o ipsToAdd)]

InitEks ==
    /\ Parked
    /\ eks \in {e \in [phase : {"start"}, cluster : CidrLists, ipsToAdd : CidrLists,
                       isClean : BOOLEAN, clear : BOOLEAN, existingCIDRs : {<<>>},
                       cmds : {<<>>}, sent : {<<>>}, exit : {-1}] :
                   \* main: ipsToAdd stays empty under --clear, else holds the
                   \* given CIDRs or the current address
                   (e.ipsToAdd = <<>>) <=> e.clear}
    /\ url = Idle /\ reg = Idle /\ envFile = Idle /\ policy = Idle

\* the first half of updateEKSPublicAccessCIDRs: `aws eks describe-cluster`
\* unless --clean or --clear; an AWS CLI error ends the script with code 1
DescribeCluster ==
    /\ eks.phase = "start"
    /\ IF eks.isClean \/ eks.clear
       THEN eks' = [eks EXCEPT !.phase = "described"]
       ELSE \E ok \in BOOLEAN :
            eks' = [eks EXCEPT
                !.cmds = Append(@, [name |-> "aws eks describe-cluster", ok |-> ok]),
                !.existingCIDRs = IF ok THEN eks.cluster ELSE <<>>,
                !.phase = IF ok THEN "described" ELSE "exited",
                !.exit = IF ok THEN -1 ELSE 1]
    /\ UNCHANGED <<url, reg, envFile, policy>>
    /\ UNCHANGED <<runVars, verifierVars, commandVars>>

\* the second half: nothing to add returns at once, else
\* `aws eks update-cluster-config` with the combined list (or, under --clear,
\* with public access switched off)
UpdateClusterConfig ==
    /\ eks.phase = "described"
    /\ LET c == combineCidrs(eks.existingCIDRs, eks.ipsToAdd)
       IN  IF c.addedIPs = <<>> /\ ~eks.clear
           THEN eks' = [eks EXCEPT !.phase = "returned"]
           ELSE \E ok \in BOOLEAN :
                eks' = [eks EXCEPT
                    !.cmds = Append(@, [name |-> "aws eks update-cluster-config",
                                        ok |-> ok]),
                    !.sent = IF eks.clear THEN <<>> ELSE Join(c.combinedCIDRs),
                    !.phase = IF ok THEN "returned" ELSE "exited",
                    !.exit = IF ok THEN -1 ELSE 1]
    /\ UNCHANGED <<url, reg, envFile, policy>>
    /\ UNCHANGED <<runVars, verifierVars, commandVars>>

NextEks ==
    \/ DescribeCluster
    \/ UpdateClusterConfig

SpecEks == InitEks /\ [][NextEks]_vars

----------------------------------------------------------------------------
(* checkAndFixS3Permissions: the bucket policy read and the policy written *)

\* the two copies of checkAndFixS3Permissions: the migration script
\* (spinner logger) and the project initializer
PolicyScripts == {"spinner", "initializer"}

\* statements a bucket policy holds before the script runs
Statements ==
    {[Sid |-> "AllowPulumiStateAccess", Effect |-> "Allow", Principal |-> "old-user"],
     [Sid |-> "ReadOnlyAuditor", Effect |-> "Allow", Principal |-> "auditor"],
     [Sid |-> "DenyInsecureTransport", Effect |-> "Deny", Principal |-> "*"],
     [Sid |-> "CiDeploy", Effect |-> "Allow", Principal |-> "ci"]}

MaxStatements == 2

\* the Statement array of the bucket's policy; <<>> is a bucket without policy
Policies == UNION {[1..n -> Statements] : n \in 0..MaxStatements}

\* newPolicy.Statement[0]
PulumiStatement ==
    [Sid |-> "AllowPulumiStateAccess", Effect |-> "Allow", Principal |-> "me"]

\* the policy the spinner script writes: the statements read, without those
\* of Sid AllowPulumiStateAccess, and the new statement at the end
mergedPolicy(currentPolicy) ==
    SelectSeq(currentPolicy, LAMBDA s : s.Sid # "AllowPulumiStateAccess")
        \o <<PulumiStatement>>

InitPolicy ==
    /\ Parked
    /\ policy \in [phase : {"identity"}, script : PolicyScripts, before : Policies,
                   currentPolicy : {<<>>}, cmds : {<<>>}, written : {<<>>},
                   after : {<<>>}, ret : {"none"}]
    /\ url = Idle /\ reg = Idle /\ envFile = Idle /\ eks = Idle

\* getCurrentAwsIdentity: without an identity the function returns false
GetCurrentAwsIdentity ==
    /\ policy.phase = "identity"
    /\ \E ok \in BOOLEAN :
        policy' = [policy EXCEPT
            !.cmds = Append(@, [name |-> "aws sts get-caller-identity", ok |-> ok]),
            !.after = policy.before,
            !.phase = IF ~ok THEN "returned"
                      ELSE IF policy.script = "spinner" THEN "get" ELSE "put",
            !.ret = IF ok THEN "none" ELSE "false"]
    /\ UNCHANGED <<url, reg, envFile, eks>>
    /\ UNCHANGED <<runVars, verifierVars, commandVars>>

\* the spinner script reads the policy: get-bucket-policy fails for a bucket
\* without policy and may fail for one that has a policy
GetBucketPolicy ==
    /\ policy.phase = "get"
    /\ \E ok \in (IF policy.before = <<>> THEN {FALSE} ELSE BOOLEAN) :
        policy' = [policy EXCEPT
            !.cmds = Append(@, [name |-> "aws s3api get-bucket-policy", ok |-> ok]),
            !.currentPolicy = IF ok THEN policy.before ELSE <<>>,
            !.phase = "put"]
    /\ UNCHANGED <<url, reg, envFile, eks>>
    /\ UNCHANGED <<runVars, verifierVars, commandVars>>

\* put-bucket-policy: the merged policy if (currentPolicy.Statement), else
\* (and always in the initializer) the new statement alone
PutBucketPolicy ==
    /\ policy.phase = "put"
    /\ \E ok \in BOOLEAN :
        LET newPolicy == IF policy.script = "spinner" /\ policy.currentPolicy # <<>>
                         THEN mergedPolicy(policy.currentPolicy)
                         ELSE <<PulumiStatement>>
        IN policy' = [policy EXCEPT
            !.cmds = Append(@, [name |-> "aws s3api put-bucket-policy", ok |-> ok]),
            !.written = newPolicy,
            !.after = IF ok THEN newPolicy ELSE policy.before,
            !.phase = "returned",
            !.ret = IF ok THEN "true" ELSE "false"]
    /\ UNCHANGED <<url, reg, envFile, eks>>
    /\ UNCHANGED <<runVars, verifierVars, commandVars>>

NextPolicy ==
    \/ GetCurrentAwsIdentity
    \/ GetBucketPolicy
    \/ PutBucketPolicy

SpecPolicy == InitPolicy /\ [][NextPolicy]_vars

----------------------------------------------------------------------------
(* Properties of a migration run *)

Issued(name) == \E i \in DOMAIN cmds : cmds[i].name = name

\* command name was issued and exited 0 before position i of cmds
SucceededBefore(name, i) == \E j \in 1..(i - 1) : cmds[j].name = name /\ cmds[j].ok

Exited == pc = "exited"

\* C1: a run that reached EXPORT_STATE has executed CLEANUP exactly once when
\* the process exits, on every exit path, and the exported state file stays
\* intact until CLEANUP runs.
C1_CleanupOnEveryExit ==
    /\ cleanups <= 1
    /\ (res.export = "ok" /\ cleanups = 0) => tempDir = "state"
    /\ (Exited /\ res.export # "none") => cleanups = 1

\* the Pulumi commands from EXPORT_STATE on (and the source-side
\* change-secrets-provider the spinner script runs just before it)
MigrationCmds ==
    {"pulumi stack change-secrets-provider", "pulumi stack export", "pulumi logout",
     "pulumi login", "pulumi stack init", "pulumi stack import", "pulumi preview",
     "pulumi stack rm"}

BucketUnavailable ==
    /\ \E i \in DOMAIN cmds : cmds[i].name = "aws s3api head-bucket" /\ ~cmds[i].ok
    /\ \/ ~args.createBucket
       \/ \E i \in DOMAIN cmds : cmds[i].name = "aws s3api create-bucket" /\ ~cmds[i].ok

\* C2: in the Cloud-to-S3 scripts `pulumi stack export` and every later Pulumi
\* step is invoked only after head-bucket found the bucket or create-bucket
\* created it; with the bucket absent and --create-bucket false, or creation
\* failed, the run exits with code 1 and never invokes the export.
C2_ExportOnlyWithBucket ==
    variant \in {"plain", "spinner"} =>
        /\ \A i \in DOMAIN cmds :
              cmds[i].name \in MigrationCmds =>
                  \/ SucceededBefore("aws s3api head-bucket", i)
                  \/ SucceededBefore("aws s3api create-bucket", i)
        /\ BucketUnavailable =>
              /\ Exited /\ exitCode = 1
              /\ ~Issued("pulumi stack export")
              /\ \A i \in DOMAIN cmds : cmds[i].name \notin MigrationCmds

\* C2 witness: the bucket was absent, was created, and the export was invoked
C2_Witness ==
    /\ variant = "spinner"
    /\ \E i \in DOMAIN cmds : cmds[i].name = "aws s3api head-bucket" /\ ~cmds[i].ok
    /\ \E i \in DOMAIN cmds : cmds[i].name = "aws s3api create-bucket" /\ cmds[i].ok
    /\ Issued("pulumi stack export")

\* C3: a failed IMPORT_STATE ends the run; the verification preview and
\* `pulumi stack rm` are invoked only after `pulumi stack import` succeeded.
C3_ImportFailureIsTerminal ==
    /\ \A i \in DOMAIN cmds :
          cmds[i].name \in {"pulumi preview", "pulumi stack rm"} =>
              SucceededBefore("pulumi stack import", i)
    /\ \A i \in DOMAIN cmds :
          (cmds[i].name = "pulumi stack import" /\ ~cmds[i].ok) =>
              /\ i = Len(cmds)
              /\ Exited /\ exitCode = 1

\* C3 witness: the source stack was removed after a successful import
C3_Witness ==
    /\ Issued("pulumi stack rm")
    /\ res.import = "ok"
    /\ Exited

\* C4: `pulumi stack rm` is issued only while the session is the source
\* backend, never after a failed logout or re-login left it elsewhere.
C4_RemoveOnlyInSourceSession ==
    res.rmSession \in {"none", "source"}

\* C5: every `pulumi login` is immediately preceded by a `pulumi logout`, the
\* backend switch always issues both, and stack init / stack import are issued
\* only after the login to the target succeeded.
C5_LogoutBeforeLogin ==
    /\ \A i \in DOMAIN cmds :
          cmds[i].name = "pulumi login" =>
              i > 1 /\ cmds[i - 1].name = "pulumi logout"
    /\ res.login # "none" =>
          \E i \in DOMAIN cmds :
              /\ cmds[i].name = "pulumi login" /\ cmds[i].arg = <<"target">>
              /\ i > 1 /\ cmds[i - 1].name = "pulumi logout"
    /\ \A i \in DOMAIN cmds :
          cmds[i].name \in {"pulumi stack init", "pulumi stack import"} =>
              \E j \in 1..(i - 1) :
                  /\ cmds[j].name = "pulumi login" /\ cmds[j].arg = <<"target">>
                  /\ cmds[j].ok

\* C5 witness: the logout failed, the login to the target was still issued
\* right after it, succeeded, and the stack was initialised
C5_Witness ==
    /\ \E i \in DOMAIN cmds :
          /\ cmds[i].name = "pulumi login" /\ cmds[i].arg = <<"target">> /\ cmds[i].ok
          /\ i > 1 /\ cmds[i - 1].name = "pulumi logout" /\ ~cmds[i - 1].ok
    /\ Issued("pulumi stack init")

\* C8: a verification that reports changes or fails does not end the run by
\* itself: the user is asked (the answer is yes under --yes); after a yes the run
\* goes on to DELETE_SOURCE / CLEANUP, after a no (also empty input, end of
\* input, and non-interactive mode without --yes) CLEANUP runs and the process
\* exits with code 1.
C8_ConfirmOnMismatch ==
    /\ res.verify = "changes" => (pc = "confirm" \/ res.answer # "none")
    /\ pc = "confirm" => ~Exited /\ exitCode = -1
    /\ res.answer = "yes" =>
          /\ pc \in {"deleteSource", "cleanup", "exited"}
          /\ Exited => (exitCode = 0 /\ cleanups = 1 /\ res.reported)
    /\ res.answer = "no" =>
          /\ Exited /\ exitCode = 1
          /\ cleanups = 1 /\ tempDir = "absent"
          /\ ~Issued("pulumi stack rm")
    /\ (res.answer # "none" /\ args.yes) => res.answer = "yes"
    /\ (res.answer # "none" /\ ~args.yes /\ ~args.interactive) => res.answer = "no"
    /\ res.typed \in {"", "null"} => res.answer = "no"

\* C8 witness: the preview failed, the user answered with empty input, and the
\* run cleaned up and exited with code 1
C8_Witness ==
    /\ res.preview = "failed" /\ res.verify = "changes"
    /\ res.typed = "" /\ res.answer = "no"
    /\ Exited /\ exitCode = 1 /\ cleanups = 1

\* C9: a failed DELETE_SOURCE does not change the outcome: CLEANUP still runs,
\* the migration is reported as successful and the exit code is not 1.
C9_DeleteFailureNotFatal ==
    res.delete = "failed" =>
        /\ pc \in {"cleanup", "exited"}
        /\ Exited => (cleanups = 1 /\ res.reported /\ exitCode = 0)

\* C9 witness: `pulumi stack rm` failed and the run ended with a success report
C9_Witness ==
    /\ \E i \in DOMAIN cmds : cmds[i].name = "pulumi stack rm" /\ ~cmds[i].ok
    /\ res.delete = "failed"
    /\ Exited /\ exitCode = 0 /\ res.reported /\ cleanups = 1

\* C10: with --skip-verify and without --delete-source neither `pulumi preview`
\* nor `pulumi stack rm` is ever invoked, and CLEANUP runs after a successful
\* import.
C10_SkipVerifyNoDelete ==
    (args.skipVerify /\ ~args.deleteSource) =>
        /\ ~Issued("pulumi preview")
        /\ ~Issued("pulumi stack rm")
        /\ (res.import = "ok" /\ Exited) => cleanups = 1

\* C10 witness: such a run imported the state and finished
C10_Witness ==
    /\ args.skipVerify /\ ~args.deleteSource
    /\ res.import = "ok"
    /\ Exited /\ cleanups = 1 /\ exitCode = 0

\* positions of the `pulumi stack init` invocations of the run
Inits == {i \in DOMAIN cmds : cmds[i].name = "pulumi stack init"}

AfterFirstSlash(s) ==
    IF FirstSlash(s, 1) = 0 THEN s ELSE SubSeq(s, FirstSlash(s, 1) + 1, Len(s))

\* C12: in the Cloud-to-S3 scripts the name passed to `pulumi stack init` is
\* everything after the first "/" of the stack id, the id itself when it has
\* no "/", and never an empty or undefined name.
C12_InitUsesStackName ==
    variant \in {"plain", "spinner"} =>
        \A i \in Inits :
            /\ cmds[i].arg = AfterFirstSlash(args.stack)
            /\ cmds[i].arg \notin {<<>>, Undefined}

PostCreationSteps ==
    {"aws s3api put-bucket-versioning", "aws s3api put-bucket-encryption",
     "aws s3api put-bucket-lifecycle-configuration"}

\* C13: after a successful create-bucket each of put-bucket-versioning,
\* put-bucket-encryption and put-bucket-lifecycle-configuration is attempted,
\* whatever the result of the others; the bucket is never deleted and
\* createS3Bucket returns true.
C13_PostCreationIndependent ==
    \A i \in DOMAIN cmds :
        (cmds[i].name = "aws s3api create-bucket" /\ cmds[i].ok) =>
            /\ \A step \in PostCreationSteps :
                  \E j \in (i + 1)..Len(cmds) : cmds[j].name = step
            /\ ~Issued("aws s3api delete-bucket")
            /\ res.bucket = "created"

\* C14: create-bucket carries --create-bucket-configuration
\* LocationConstraint=<region> if and only if the region is not us-east-1.
C14_LocationConstraint ==
    \A i \in DOMAIN cmds :
        cmds[i].name = "aws s3api create-bucket" =>
            /\ cmds[i].opts.location # "none" <=> args.region # "us-east-1"
            /\ cmds[i].opts.location \in {"none", args.region}

\* C14 witness: a bucket was created in us-east-1 without a LocationConstraint
C14_Witness ==
    /\ args.region = "us-east-1"
    /\ \E i \in DOMAIN cmds :
          /\ cmds[i].name = "aws s3api create-bucket" /\ cmds[i].ok
          /\ cmds[i].opts.location = "none"

\* C15: when the requested lock table does not exist and is not created the
\* run goes on, and the backend URL of every later login has no
\* dynamodb_table parameter.
C15_MissingLockTableDegrades ==
    res.lock = "missing" =>
        /\ pc # "lockTable"
        /\ ~(Exited /\ cmds[Len(cmds)].name \in
                {"aws dynamodb describe-table", "aws dynamodb create-table"})
        /\ \A i \in DOMAIN cmds :
              cmds[i].name = "pulumi login" => cmds[i].opts.table = "none"

\* the secrets-provider argument is an awskms:// URL
IsAwsKms(secrets) == secrets # <<>> /\ secrets[1] = "awskms://"

\* C16: when awskms is selected, the KMS alias does not exist and no key is
\* created, the run goes on and neither change-secrets-provider nor stack init
\* is given an awskms:// URL.
C16_MissingKmsFallsBack ==
    res.kms = "missing" =>
        /\ pc # "kms"
        /\ ~(Exited /\ cmds[Len(cmds)].name \in
                {"aws kms describe-key", "aws kms create-key"})
        /\ \A i \in DOMAIN cmds :
              cmds[i].name \in {"pulumi stack change-secrets-provider",
                                "pulumi stack init"} =>
                  ~IsAwsKms(cmds[i].opts.secrets)

\* the process is at the argument check or has exited from it, with no
\* external command run and nothing written to disk
NoSideEffects ==
    /\ pc \in {"checkArgs", "exited"}
    /\ cmds = <<>>
    /\ tempDir = "absent" /\ cleanups = 0

\* C18 as stated: with --stack or --bucket / --backend missing, the run exits
\* with code 1 before any external command and before anything is written.
C18_MissingInputExitsOne ==
    MissingArgument(args) =>
        /\ NoSideEffects
        /\ Exited => exitCode = 1

\* C18: with --stack or --bucket / --backend missing the run exits before any
\* external command and before anything is written; the exit code is 1 unless
\* --help was given, and then it is 0.
C18_MissingArgumentExits ==
    MissingArgument(args) =>
        /\ NoSideEffects
        /\ Exited => exitCode = (IF args.help THEN 0 ELSE 1)

\* C18 witness: the stack was given, the bucket was not, and the run ended
\* with code 1 without having run a command
C18_Witness ==
    /\ args.stack # <<>> /\ ~args.bucket /\ ~args.help
    /\ Exited /\ exitCode = 1 /\ cmds = <<>>

\* a step whose failure ends the run has failed
TerminalFailure ==
    \/ variant # "s3cloud" /\ BucketUnavailable
    \/ res.export = "failed" \/ res.login = "failed"
    \/ res.create = "failed" \/ res.import = "failed"
    \/ res.answer = "no"

\* C19: the success report is made, and the exit code is 0, only after
\* export, backend switch, stack creation and import succeeded and the
\* verification was skipped, clean or overridden by the user; after missing
\* arguments (help not requested), an unavailable bucket, a failed export,
\* login, stack creation or import, or a declined confirmation, the exit code
\* is 1.
C19_ExitCodes ==
    /\ Exited => exitCode \in {0, 1}
    /\ (res.reported \/ (Exited /\ exitCode = 0 /\ ~args.help)) =>
          /\ res.reported /\ Exited /\ exitCode = 0
          /\ res.export = "ok" /\ res.login = "ok"
          /\ res.create = "ok" /\ res.import = "ok"
          /\ args.skipVerify \/ res.verify = "clean" \/ res.answer = "yes"
    /\ TerminalFailure => (Exited /\ exitCode = 1 /\ ~res.reported)
    /\ (MissingArgument(args) /\ ~args.help /\ Exited) =>
          (exitCode = 1 /\ ~res.reported)

\* C19 witness: the verification reported changes, the user went on, and the
\* run ended with the success report and code 0
C19_Witness ==
    /\ res.verify = "changes" /\ res.answer = "yes"
    /\ res.reported /\ Exited /\ exitCode = 0

----------------------------------------------------------------------------
(* Properties of executeCommand *)

\* C17: executeCommand never throws; it returns success = true exactly when
\* the child was spawned, its pipes were read and it exited with status 0, and
\* otherwise success = false with a non-empty diagnostic in output (the
\* child's stderr when it wrote one and exited non-zero).
C17_ExecuteCommandResult ==
    /\ ~exec.ret.thrown
    /\ (exec.at = "caller" /\ exec.proc # NoProcess) => exec.ret.returned
    /\ exec.ret.returned =>
          /\ exec.ret.success <=>
                (exec.proc.spawned /\ exec.proc.io = "ok" /\ exec.proc.code = "0")
          /\ exec.ret.success => exec.ret.output = Trim(exec.proc.stdout)
          /\ ~exec.ret.success => exec.ret.output # <<>>
          /\ (exec.proc.spawned /\ exec.proc.io = "ok" /\ exec.proc.code # "0"
                /\ exec.proc.stderr # <<>>) =>
                Includes(exec.ret.output, exec.proc.stderr)

\* C17 witness: a child that exited with status 2 and wrote nothing to stderr
\* made executeCommand return success = false and a diagnostic
C17_Witness ==
    /\ variant = "spinner"
    /\ exec.proc.spawned /\ exec.proc.io = "ok"
    /\ exec.proc.code = "2" /\ exec.proc.stderr = <<>>
    /\ exec.ret.returned /\ ~exec.ret.success
    /\ exec.ret.output = <<"Command exited with code ", "2">>

----------------------------------------------------------------------------
(* Properties of the verifier *)

Classified == vVerdict # "none"

\* C6: when the preview command exits non-zero the verdict is ChangesDetected,
\* whatever the captured output contains.
C6_FailedPreviewIsChanges ==
    (Classified /\ ~vSuccess) => vVerdict = "changes"

\* C6 witness: a failed preview whose output says "no changes" is classified
\* ChangesDetected by the plain script
C6_Witness ==
    /\ variant = "plain"
    /\ ~vSuccess
    /\ vOutput = <<NoChanges>>
    /\ vVerdict = "changes"

\* the output has a line "+ N to create" with N >= 1
HasCreateLine(lines) == \E i \in DOMAIN lines : lines[i] = PlusCreate1

\* the output reports zero creates, zero updates and zero deletes, and no
\* other count
ReportsZero(lines) ==
    /\ \E i \in DOMAIN lines : lines[i] = ZeroToCreate
    /\ \E i \in DOMAIN lines : lines[i] = ZeroToUpdate
    /\ \E i \in DOMAIN lines : lines[i] = ZeroToDelete
    /\ \A i \in DOMAIN lines :
          lines[i] \notin {PlusCreate1, TildeUpdate1, MinusDelete1, TenToCreate}

\* C7: for a preview that exited with status 0 the verdict is ChangesDetected
\* when the output has a line "+ N to create" with N >= 1, and Clean when the
\* output reports zero creates, zero updates and zero deletes.
C7_ClassifyCounts ==
    (Classified /\ vSuccess) =>
        /\ HasCreateLine(vOutput) => vVerdict = "changes"
        /\ ReportsZero(vOutput) => vVerdict = "clean"

\* C21: parsing the URL built from bucket B, region R and lock table T yields
\* exactly B, R and T, and yields no table when the URL was built without one
C21_UrlRoundTrip ==
    url.phase = "parsed" =>
        url.parsed = [ok |-> TRUE, bucket |-> url.bucket, region |-> url.region,
                      table |-> url.table]

\* a URL with a two-character bucket, region and table has been parsed
C21_Witness ==
    /\ url.phase = "parsed"
    /\ Len(url.bucket) = 2 /\ Len(url.region) = 2 /\ Len(url.table) = 2
    /\ Includes(url.text, <<"&">>)

\* a URL built without a table has been parsed
C21_WitnessNoTable ==
    /\ url.phase = "parsed"
    /\ url.table = <<>>
    /\ url.parsed.ok

\* C22: the region a script uses is the --region flag when given, else
\* AWS_REGION when set, else the script's hardcoded default; in the
\* initializer this holds when the region prompt is answered with empty input
C22_RegionPrecedence ==
    (reg.phase = "used" /\ reg.response = "") =>
        reg.used = (IF reg.flag # "" THEN reg.flag
                    ELSE IF reg.env # "" THEN reg.env
                    ELSE HardcodedDefault(reg.script))

\* C23: for every output of a successful preview the verifier of the plain
\* script and the verifier of the spinner scripts return the same verdict
C23_VerifiersAgree ==
    (vVerdict # "none" /\ vSuccess) =>
        /\ vVerdict = Verdict(verifyMigration("plain", vSuccess, Text(vOutput)))
        /\ vVerdict = Verdict(verifyMigration("spinner", vSuccess, Text(vOutput)))

\* the place of a command in the order change-secrets-provider (on the
\* source stack) -> export -> login to target -> init -> import -> preview ->
\* rm; 0 for a command that is none of these steps
StepRank(c) ==
    IF c.name = "pulumi stack change-secrets-provider" /\ variant # "s3cloud" THEN 1
    ELSE IF c.name = "pulumi stack export" THEN 2
    ELSE IF c.name = "pulumi login" /\ c.arg # <<"source">> THEN 3
    ELSE IF c.name = "pulumi stack init" THEN 4
    ELSE IF c.name = "pulumi stack import" THEN 5
    ELSE IF c.name = "pulumi preview" THEN 6
    ELSE IF c.name = "pulumi stack rm" THEN 7
    ELSE 0

StepCmds == {i \in DOMAIN cmds : StepRank(cmds[i]) > 0}

\* j is the step command that follows step command i
NextStep(i, j) ==
    /\ i \in StepCmds /\ j \in StepCmds /\ i < j
    /\ \A k \in StepCmds : ~(i < k /\ k < j)

\* C24: the Pulumi steps of a run occur in the order change-secrets-provider
\* (source) -> export -> login to target -> init -> import -> preview -> rm;
\* a step starts only after the step before it succeeded (a preview whose
\* mismatch the user accepted counts), and only stack init is ever repeated
C24_LinearOrder ==
    \A i \in StepCmds : \A j \in StepCmds :
        NextStep(i, j) =>
            /\ StepRank(cmds[i]) <= StepRank(cmds[j])
            /\ StepRank(cmds[i]) = StepRank(cmds[j]) => StepRank(cmds[i]) = 4
            /\ (StepRank(cmds[i]) < StepRank(cmds[j]) /\ StepRank(cmds[i]) # 6)
                   => cmds[i].ok

\* the commands createKmsKeyAndAlias issued, "none" for one it did not issue
KmsCmd(name) ==
    IF \E i \in DOMAIN cmds : cmds[i].name = name
    THEN IF \E i \in DOMAIN cmds : cmds[i].name = name /\ cmds[i].ok
         THEN "ok" ELSE "failed"
    ELSE "none"

\* C25: createKmsKeyAndAlias returns null only when create-key failed or its
\* output could not be parsed (no create-alias follows); it returns the id of
\* the created key when create-alias fails and the alias when both succeed
C25_KmsReturnValue ==
    res.kmsRet # <<>> =>
        /\ res.kmsRet = Null =>
              \/ KmsCmd("aws kms create-key") = "failed"
              \/ KmsCmd("aws kms create-key") = "ok"
                    /\ KmsCmd("aws kms create-alias") = "none"
        /\ (KmsCmd("aws kms create-key") = "ok"
               /\ KmsCmd("aws kms create-alias") = "failed")
              => res.kmsRet = NewKeyId
        /\ (KmsCmd("aws kms create-key") = "ok"
               /\ KmsCmd("aws kms create-alias") = "ok")
              => res.kmsRet = KmsKeyId(DefaultKmsAlias)

\* C25 witness: the key was created, the alias was not, the key id came back
C25_Witness ==
    /\ res.kmsRet = NewKeyId
    /\ KmsCmd("aws kms create-key") = "ok"
    /\ KmsCmd("aws kms create-alias") = "failed"

\* the stack a command addresses: --organization and the name, or the name
StackOf(c) == IF c.org # <<>> THEN c.org \o <<"/">> \o c.arg ELSE c.arg

\* the commands that address the stack in the target backend after its creation
OnTargetStack(c) ==
    \/ c.name = "pulumi stack import"
    \/ c.name = "pulumi preview"
    \/ c.name = "pulumi stack change-secrets-provider" /\ variant = "s3cloud"

\* C28: stack import, the change-secrets-provider on the target and the
\* preview address exactly the stack that the successful stack init created
C28_OneTargetStack ==
    \A i \in Inits : \A j \in DOMAIN cmds :
        (cmds[i].ok /\ i < j /\ OnTargetStack(cmds[j])) =>
            StackOf(cmds[j]) = StackOf(cmds[i])

\* C30: once createKmsKeyAndAlias has returned the bare id of the key it
\* created, every awskms:// secrets provider passed to
\* change-secrets-provider and to stack init names that key id, not an alias
C30_KeyIdInSecretsUrl ==
    res.kmsRet = NewKeyId =>
        \A i \in DOMAIN cmds :
            IsAwsKms(cmds[i].opts.secrets) =>
                cmds[i].opts.secrets =
                    <<"awskms://">> \o NewKeyId \o <<"?region=", args.region>>

\* the line of the file that supplies the final value of key
FinalLine(key) ==
    CHOOSE i \in DOMAIN envFile.lines :
        /\ envFile.lines[i].kind = "definition" /\ envFile.lines[i].key = key
        /\ \A j \in DOMAIN envFile.lines :
              (envFile.lines[j].kind = "definition" /\ envFile.lines[j].key = key)
                  => j <= i

\* line i is the first definition after a #@notSecured annotation
FirstDefinitionAfterAnnotation(i) ==
    \E j \in 1..(i - 1) :
        /\ envFile.lines[j].kind = "annotation"
        /\ \A k \in (j + 1)..(i - 1) : envFile.lines[k].kind # "definition"

AnnotationLines == {i \in DOMAIN envFile.lines : envFile.lines[i].kind = "annotation"}

StringKeys ==
    {envFile.params[n].key : n \in {m \in DOMAIN envFile.params :
                                       envFile.params[m].type = "String"}}

\* C26: a variable is written as String only if the line that supplies its
\* final value is the first definition after a #@notSecured annotation, every
\* other variable is written as SecureString, and the variables written as
\* String are at most as many as the annotations
C26_SecretByDefault ==
    envFile.phase = "writing" =>
        /\ \A n \in DOMAIN envFile.params :
              envFile.params[n].type =
                  paramType(~FirstDefinitionAfterAnnotation(FinalLine(envFile.params[n].key)))
        /\ Cardinality(StringKeys) <= Cardinality(AnnotationLines)

\* updateEKSPublicAccessCIDRs has issued `aws eks update-cluster-config`
Updated == \E i \in DOMAIN eks.cmds : eks.cmds[i].name = "aws eks update-cluster-config"

\* C27: without --clean and --clear the publicAccessCidrs sent are, without
\* repetition, exactly the cluster's CIDRs together with the requested ones,
\* and no update is issued when the cluster has every requested CIDR
C27_UnionOfCidrs ==
    (~eks.isClean /\ ~eks.clear /\ eks.phase \in {"returned", "exited"}) =>
        /\ Updated =>
              /\ Elements(CidrsOf(eks.sent))
                     = Elements(eks.cluster) \cup Elements(eks.ipsToAdd)
              /\ Len(CidrsOf(eks.sent)) = Cardinality(Elements(CidrsOf(eks.sent)))
        /\ Elements(eks.ipsToAdd) \subseteq Elements(eks.cluster) => ~Updated

\* C27 witness: a cluster with two CIDRs was asked for one of them and a new
\* one, and the update was issued
C27_Witness ==
    /\ ~eks.isClean /\ ~eks.clear /\ Updated
    /\ Cardinality(Elements(eks.cluster)) = 2
    /\ Cardinality(Elements(eks.ipsToAdd)) = 2
    /\ Cardinality(Elements(eks.ipsToAdd) \cap Elements(eks.cluster)) = 1

\* C29: every statement of the bucket's policy other than one with Sid
\* AllowPulumiStateAccess is in the policy put-bucket-policy writes, in the
\* migration script and in the initializer
C29_PolicyPreserved ==
    policy.ret = "true" =>
        \A i \in DOMAIN policy.before :
            policy.before[i].Sid # "AllowPulumiStateAccess" =>
                /\ \E j \in DOMAIN policy.written : policy.written[j] = policy.before[i]
                /\ \E j \in DOMAIN policy.after : policy.after[j] = policy.before[i]

====
